---- MODULE Spec2Model ----
(***************************************************************************)
(* Model of main.py of irrigation-worker: the prediction pipeline          *)
(* (predict_irrigation), its three callers (POST /predict, POST            *)
(* /trigger-prediction, the poll loop monitor_firebase_sensor_data) and    *)
(* the push callback sensor_data_listener, running against the remote      *)
(* store node sensorData.                                                  *)
(*                                                                         *)
(* A store call (ref.get, ref.set) is one atomic step; everything a        *)
(* thread does between two store calls is local and belongs to the step    *)
(* of the store call before it.  The poll loop is one thread; one other    *)
(* thread at a time serves a request or a push event (the h_ variables).   *)
(*                                                                         *)
(* Of the node sensorData the model keeps the five keys the program names: *)
(* the three sensor fields, prediction_class and last_prediction_time.     *)
(* What sensorData/raw holds is an input of the call that reads it.        *)
(* The classifier, the scaler and the encoders are an opaque artifact: a   *)
(* run answers any class, or raises in either stage.                       *)
(*                                                                         *)
(* Specifications: SpecPoll (the poll thread and the sensors), SpecReq     *)
(* (the request handlers and the push callback), Spec (all threads),       *)
(* SpecRuns (all threads, recording which run wrote prediction_class),     *)
(* SpecFeatures (feature construction alone, over readings around the      *)
(* thresholds) and SpecPublish (the two store writes alone, over any       *)
(* prior content of the node).  The history variables class_run and       *)
(* push_streak are recorded in the specifications whose initial state      *)
(* names them in observe, and are constant in the others.                  *)
(***************************************************************************)
EXTENDS Integers, FiniteSets, Sequences, TLC

\* ------------------------------------------------------------------ bounds
MaxClock == 2      \* pipeline runs that take a timestamp in one behaviour
MaxClass == 0      \* the classifier answers a class in 0..MaxClass
MaxPublish == 2    \* publishing alone: times the same pair is written
Spread == 1        \* feature construction alone: readings this far around a threshold
MaxEnc == 1        \* feature construction alone: an encoder answers 0..MaxEnc

\* ------------------------------------------------------- program constants
max_errors == 5

\* ------------------------------------------------------------- store values
\* A value of the store is a number; three values that are no readings stand
\* for what is not a number (sensor readings here are all >= 0).
Absent == -1     \* the key is not in the dict
Null   == -2     \* the key is there and holds None
Bad    == -3     \* the key holds a value float() cannot convert, such as "abc"

required_fields == {"humidity", "temperature", "soilMoisture"}

Base == [humidity |-> 40, temperature |-> 38, soilMoisture |-> 20]
Alt  == [humidity |-> 55, temperature |-> 30, soilMoisture |-> 35]
EmptyObs == [f \in required_fields |-> Absent]

\* The readings the environment (the sensors, a client's request body, an
\* operator editing the store) supplies: the base reading and every reading
\* that differs from it in one field, by value, absence, null or garbage.
Observations ==
    {Base} \cup { [Base EXCEPT ![f] = Alt[f]] : f \in required_fields }
           \cup { [Base EXCEPT ![f] = Absent] : f \in required_fields }
           \cup { [Base EXCEPT !.temperature = Null], [Base EXCEPT !.humidity = Bad] }

Classes == 0..MaxClass

\* ------------------------------------------------------------------- state
VARIABLES
    store,               \* node sensorData: [sensors, prediction_class, last_prediction_time]
    clock,               \* datetime.now(), counted in pipeline runs
    poll_pc,             \* poll thread: "fetch", "w1", "w2", "halted"
    current,             \* poll loop local `current`: what ref.get() answered last
    last_values,         \* poll loop local `last_values`
    consecutive_errors,  \* poll loop local `consecutive_errors`
    poll_run,            \* the poll run in flight: [irrigation_class, timestamp]
    pollLog,             \* what the poll loop printed last
    streak,              \* history: latest poll iterations in a row that ended in the outer except
    h_pc,                \* handler thread: "idle", "w1", "w2"
    h_kind,              \* the call the handler thread is in: "predict", "trigger", "push", "none"
    h_run,               \* the handler's run in flight
    h_data,              \* the SensorData the handler's run in flight was called with
    h_input,             \* what the reading it was built from was: ReadingKind
    h_resp,              \* what the handler returned or printed last
    h_event,             \* the type of the push event the handler's run in flight serves
    escaped,             \* callers an exception propagated out of
    class_run,           \* history: the timestamp of the run that set prediction_class last
    push_streak,         \* history: latest push events in a row that failed
    data,                \* feature construction alone: the SensorData argument
    now,                 \* feature construction alone: datetime.now()
    enc,                 \* feature construction alone: what the three encoders answer
    feature_vector,      \* feature construction alone: the row handed to the scaler
    p_run,               \* publishing alone: the (irrigation_class, timestamp) written
    p_count,             \* publishing alone: how many times it has been written
    observe              \* the history variables this specification records

vars == <<store, clock, poll_pc, current, last_values, consecutive_errors,
          poll_run, pollLog, streak, h_pc, h_kind, h_run, h_data, h_input, h_resp,
          h_event, escaped, class_run, push_streak,
          data, now, enc, feature_vector, p_run, p_count, observe>>

pollVars == <<poll_pc, current, last_values, consecutive_errors, poll_run, pollLog, streak>>
hVars    == <<h_pc, h_kind, h_run, h_data, h_input, h_resp, h_event>>
progVars == <<clock, pollVars, hVars, escaped, class_run, push_streak>>
featVars == <<data, now, enc, feature_vector>>
pubVars  == <<p_run, p_count, observe>>

NoRun == [irrigation_class |-> Absent, timestamp |-> Absent]
NoTime == [hour |-> Absent, day_of_year |-> Absent, month |-> Absent]
NoEnc == [district |-> Absent, zone |-> Absent, season |-> Absent]

\* ----------------------------------------------------------------- helpers
\* Python None, as ref.get() returns it for a node that holds nothing, and as
\* last_values starts: the dict without any key.
None == [sensors |-> EmptyObs, prediction_class |-> Absent, last_prediction_time |-> Absent]

\* The required-field check left out.
HasRequiredSkipped(d) == TRUE

\* all(field in current for field in required_fields)
HasRequired(d) == \A f \in required_fields : d.sensors[f] # Absent

\* float(v): the exception it raises, or "none".
FloatExc(v) ==
    IF v = Null THEN "TypeError" ELSE IF v = Bad THEN "ValueError" ELSE "none"

\* d.get(f, 0.0)
GetOrZero(d, f) == IF d[f] = Absent THEN 0 ELSE d[f]

\* SensorData(humidity=float(d.get(..)), temperature=.., soilMoisture=..):
\* the first exception in argument order, or "none".
CoerceExc(d) ==
    IF FloatExc(GetOrZero(d, "humidity")) # "none" THEN FloatExc(GetOrZero(d, "humidity"))
    ELSE IF FloatExc(GetOrZero(d, "temperature")) # "none" THEN FloatExc(GetOrZero(d, "temperature"))
    ELSE FloatExc(GetOrZero(d, "soilMoisture"))

\* The SensorData built from d by the three float(d.get(f, 0.0)) calls.
Coerce(d) == [f \in required_fields |-> GetOrZero(d, f)]

\* What a reading is, for the caller that obtained it.
ReadingKind(d) ==
    IF d = EmptyObs THEN "empty"
    ELSE IF \E f \in required_fields : d[f] = Absent THEN "missing"
    ELSE IF \E f \in required_fields : d[f] = Null THEN "null"
    ELSE IF \E f \in required_fields : d[f] = Bad THEN "bad"
    ELSE "complete"

\* The three sensor fields of a fetched dict.
Sensors(d) == d.sensors

\* data_changed that looks at the humidity alone.
DataChangedHumidityOnly(cur, last) ==
    last = None \/ cur.sensors.humidity # last.sensors.humidity

\* data_changed: last_values is None or current != last_values or not last_values
DataChanged(cur, last) == last = None \/ cur # last \/ last = None

\* except (ValueError, TypeError) in predict_irrigation.
PredictCatchesValueErrors(e) == e \in {"ValueError", "TypeError"}

\* except Exception in predict_irrigation: does it catch exception e?
PredictCatches(e) == TRUE

\* except (ValueError, TypeError) around the poll loop's validation and run
PollInnerCatches(e) == e \in {"ValueError", "TypeError"}

\* if consecutive_errors > max_errors: break
ShouldStopLate(n) == n > max_errors

\* if consecutive_errors >= max_errors: break
ShouldStop(n) == n >= max_errors

\* The stages of predict_irrigation before its store writes that can raise:
\* the label encoders (a category they were not fitted on) and the scaler and
\* model (a vector they reject).
Stages == {"encode", "infer"}

\* sklearn raises ValueError in both.
StageExc(stage) == "ValueError"

\* predict_irrigation when the statement it executes raises e: the error
\* payload it returns, or e itself when its except clause lets e through.
PredictOn(e) == IF PredictCatches(e) THEN "error" ELSE e

\* class_run once run has set prediction_class.
ClassRunAfter(run) == IF "class_run" \in observe THEN run.timestamp ELSE class_run

\* db.reference('sensorData/prediction_class').set(c) on the node s
SetClass(s, c) == [s EXCEPT !.prediction_class = c]

\* set(t) that adds t to what the key holds.
SetTimeAdding(s, t) == [s EXCEPT !.last_prediction_time = @ + t]

\* db.reference('sensorData/last_prediction_time').set(t) on the node s
SetTime(s, t) == [s EXCEPT !.last_prediction_time = t]

\* The timestamp published before the encoders and the model have run.
StoreAtStageStamped(stage, s, t) == SetTime(s, t)

\* The node s when the run that would stamp t raises in stage: the encoders,
\* the scaler and the model run before the first set(), nothing is written.
StoreAtStage(stage, s, t) == s

\* ------------------------------------------------------------ the poll loop
\* The loop body without its consecutive_errors = 0.
PollReturnedNoReset(r, cur) ==
    /\ current' = cur
    /\ last_values' = cur
    /\ pollLog' = IF r = "ok" THEN "run_ok" ELSE "run_error"
    /\ poll_pc' = "fetch"
    /\ poll_run' = NoRun
    /\ streak' = 0
    /\ UNCHANGED consecutive_errors

\* The loop body after predict_irrigation returned r ("ok" or "error").
PollReturned(r, cur) ==
    /\ current' = cur
    /\ last_values' = cur
    /\ consecutive_errors' = 0
    /\ pollLog' = IF r = "ok" THEN "run_ok" ELSE "run_error"
    /\ poll_pc' = "fetch"
    /\ poll_run' = NoRun
    /\ streak' = 0

\* The outer handler: except Exception, count, stop at the threshold.
PollOuterExcept(cur) ==
    /\ current' = cur
    /\ consecutive_errors' = consecutive_errors + 1
    /\ pollLog' = "error"
    /\ poll_pc' = IF ShouldStop(consecutive_errors + 1) THEN "halted" ELSE "fetch"
    /\ poll_run' = NoRun
    /\ streak' = streak + 1
    /\ UNCHANGED last_values

\* An exception e raised inside the inner try (by float() or by the run).
PollRaised(e, cur) ==
    IF PollInnerCatches(e)
    THEN /\ current' = cur
         /\ pollLog' = "invalid"
         /\ poll_pc' = "fetch"
         /\ poll_run' = NoRun
         /\ streak' = 0
         /\ UNCHANGED <<last_values, consecutive_errors>>
    ELSE PollOuterExcept(cur)

\* The loop body once predict_irrigation ended with out: a payload or an exception.
PollAfterPredict(out, cur) ==
    IF out \in {"ok", "error"} THEN PollReturned(out, cur) ELSE PollRaised(out, cur)

\* An iteration that ran no pipeline and raised nothing; what is the log line.
PollSkip(line, cur) ==
    /\ current' = cur
    /\ pollLog' = line
    /\ poll_pc' = "fetch"
    /\ poll_run' = NoRun
    /\ streak' = 0
    /\ UNCHANGED <<last_values, consecutive_errors>>

\* ref.get() raises: the iteration ends in the outer handler.
PollFetchFail ==
    /\ poll_pc = "fetch"
    /\ PollOuterExcept(current)
    /\ UNCHANGED <<store, clock, hVars, escaped, class_run, push_streak, featVars, pubVars>>

\* ref.get() answers; change detection, validation, and the run up to its
\* first store write.
PollFetch ==
    /\ poll_pc = "fetch"
    /\ LET cur == store IN
       IF cur = None THEN PollSkip("no_data", cur) /\ UNCHANGED <<clock, store>>
       ELSE IF ~DataChanged(cur, last_values)
            THEN PollSkip("no_change", cur) /\ UNCHANGED <<clock, store>>
       ELSE IF ~HasRequired(cur) THEN PollSkip("missing", cur) /\ UNCHANGED <<clock, store>>
       ELSE IF CoerceExc(Sensors(cur)) # "none"
            THEN PollRaised(CoerceExc(Sensors(cur)), cur) /\ UNCHANGED <<clock, store>>
       ELSE /\ clock < MaxClock
            /\ clock' = clock + 1
            /\ \/ \E stage \in Stages :
                    /\ PollAfterPredict(PredictOn(StageExc(stage)), cur)
                    /\ store' = StoreAtStage(stage, store, clock + 1)
               \/ \E c \in Classes :
                    /\ current' = cur
                    /\ poll_pc' = "w1"
                    /\ poll_run' = [irrigation_class |-> c, timestamp |-> clock + 1]
                    /\ pollLog' = "run_started"
                    /\ streak' = 0
                    /\ UNCHANGED <<last_values, consecutive_errors, store>>
    /\ UNCHANGED <<hVars, escaped, class_run, push_streak, featVars, pubVars>>

\* db.reference('sensorData/prediction_class').set(irrigation_class)
PollWrite1 ==
    /\ poll_pc = "w1"
    /\ \E ok \in BOOLEAN :
         IF ok
         THEN /\ store' = SetClass(store, poll_run.irrigation_class)
              /\ class_run' = ClassRunAfter(poll_run)
              /\ poll_pc' = "w2"
              /\ UNCHANGED <<current, last_values, consecutive_errors, poll_run, pollLog, streak>>
         ELSE /\ PollAfterPredict(PredictOn("StoreError"), current)
              /\ UNCHANGED <<store, class_run>>
    /\ UNCHANGED <<clock, hVars, escaped, push_streak, featVars, pubVars>>

\* db.reference('sensorData/last_prediction_time').set(timestamp), the return,
\* and the loop body's lines after the call.
PollWrite2 ==
    /\ poll_pc = "w2"
    /\ \E ok \in BOOLEAN :
         IF ok
         THEN /\ store' = SetTime(store, poll_run.timestamp)
              /\ PollAfterPredict("ok", current)
         ELSE /\ PollAfterPredict(PredictOn("StoreError"), current)
              /\ UNCHANGED store
    /\ UNCHANGED <<clock, hVars, escaped, class_run, push_streak, featVars, pubVars>>

\* ------------------------------------------- requests and the push callback
\* FastAPI validates the body of POST /predict against SensorData before it
\* calls predict_route: three required floats, or the call is answered 422.
BodyValid(b) == ReadingKind(b) = "complete"

\* except Exception in trigger_prediction
TriggerCatches(e) == TRUE

\* except Exception in sensor_data_listener
ListenerCatches(e) == TRUE

\* The test of event.data alone.
EventAcceptedAnyType(type, d) == d # EmptyObs

\* event.data and event.event_type in ['put', 'patch']
EventAccepted(type, d) == d # EmptyObs /\ type \in {"put", "patch"}

EventTypes == {"put", "patch", "cancel"}

\* The caller of predict_irrigation once it ended with out: a payload ("ok",
\* "error") or an exception. predict_route has no handler of its own.
HAfterPredict(kind, out) ==
    /\ h_pc' = "idle"
    /\ h_run' = NoRun
    /\ h_data' = EmptyObs
    /\ h_input' = "none"
    /\ h_kind' = "none"
    /\ h_event' = "none"
    /\ push_streak' = IF kind # "push" \/ "push_streak" \notin observe THEN push_streak
                      ELSE IF out = "ok" THEN 0
                      ELSE IF push_streak > max_errors THEN push_streak
                      ELSE push_streak + 1
    /\ IF out \in {"ok", "error"}
       THEN /\ h_resp' = out
            /\ UNCHANGED escaped
       ELSE IF kind = "predict"
       THEN /\ h_resp' = "raised"
            /\ escaped' = escaped \cup {"predict_route"}
       ELSE IF kind = "trigger"
       THEN IF TriggerCatches(out)
            THEN h_resp' = "exception" /\ UNCHANGED escaped
            ELSE h_resp' = "raised" /\ escaped' = escaped \cup {"trigger_prediction"}
       ELSE IF ListenerCatches(out)
            THEN h_resp' = "exception" /\ UNCHANGED escaped
            ELSE h_resp' = "raised" /\ escaped' = escaped \cup {"sensor_data_listener"}

\* A call that ends without calling predict_irrigation.
HNoRun(kind, resp) ==
    /\ h_pc' = "idle"
    /\ h_run' = NoRun
    /\ h_data' = EmptyObs
    /\ h_input' = "none"
    /\ h_kind' = "none"
    /\ h_event' = "none"
    /\ h_resp' = resp
    /\ push_streak' = IF kind = "push" /\ "push_streak" \in observe THEN 0 ELSE push_streak
    /\ UNCHANGED <<clock, escaped, store>>

\* predict_irrigation(d) up to its first store write, called by kind (for
\* an event of type event) with the SensorData d built from reading.
HBegin(kind, event, reading, d) ==
    /\ clock < MaxClock
    /\ clock' = clock + 1
    /\ \/ \E stage \in Stages :
            /\ HAfterPredict(kind, PredictOn(StageExc(stage)))
            /\ store' = StoreAtStage(stage, store, clock + 1)
       \/ \E c \in Classes :
            /\ h_pc' = "w1"
            /\ h_kind' = kind
            /\ h_event' = event
            /\ h_run' = [irrigation_class |-> c, timestamp |-> clock + 1]
            /\ h_data' = d
            /\ h_input' = ReadingKind(reading)
            /\ h_resp' = "running"
            /\ UNCHANGED <<escaped, store, push_streak>>

\* POST /predict behind the poll loop's change detection.
PredictRouteWithGated(b) ==
    /\ h_pc = "idle"
    /\ IF ~BodyValid(b) THEN HNoRun("predict", "422")
       ELSE IF b = Sensors(last_values) THEN HNoRun("predict", "no_change")
       ELSE HBegin("predict", "none", b, b)
    /\ UNCHANGED <<pollVars, class_run, featVars, pubVars>>

\* POST /predict with body b.
PredictRouteWith(b) ==
    /\ h_pc = "idle"
    /\ IF ~BodyValid(b) THEN HNoRun("predict", "422") ELSE HBegin("predict", "none", b, b)
    /\ UNCHANGED <<pollVars, class_run, featVars, pubVars>>

\* The readings a request body, sensorData/raw or a push event holds: their
\* values reach the pipeline's features only, so one complete reading stands
\* for all of them.
Readings ==
    {Base, EmptyObs, [Base EXCEPT !.temperature = Null], [Base EXCEPT !.humidity = Bad]}
        \cup { [Base EXCEPT ![f] = Absent] : f \in required_fields }

PredictRoute == \E b \in Readings : PredictRouteWith(b)

\* POST /trigger-prediction when ref.get() of sensorData/raw answers raw
\* (EmptyObs: no data), or raises (got = FALSE).
TriggerWith(got, raw) ==
    /\ h_pc = "idle"
    /\ IF ~got THEN HAfterPredict("trigger", "StoreError") /\ UNCHANGED <<clock, store>>
       ELSE IF raw = EmptyObs THEN HNoRun("trigger", "no_data")
       ELSE IF CoerceExc(raw) # "none"
            THEN HAfterPredict("trigger", CoerceExc(raw)) /\ UNCHANGED <<clock, store>>
       ELSE HBegin("trigger", "none", raw, Coerce(raw))
    /\ UNCHANGED <<pollVars, class_run, featVars, pubVars>>

TriggerPrediction == TriggerWith(FALSE, EmptyObs) \/ \E raw \in Readings : TriggerWith(TRUE, raw)

\* sensor_data_listener(event), event.event_type = type, event.data = d
ListenerWith(type, d) ==
    /\ h_pc = "idle"
    /\ IF ~EventAccepted(type, d) THEN HNoRun("push", "ignored")
       ELSE IF ~(\A f \in required_fields : d[f] # Absent) THEN HNoRun("push", "missing")
       ELSE IF CoerceExc(d) # "none"
            THEN HAfterPredict("push", CoerceExc(d)) /\ UNCHANGED <<clock, store>>
       ELSE HBegin("push", type, d, Coerce(d))
    /\ UNCHANGED <<pollVars, class_run, featVars, pubVars>>

SensorDataListener ==
    \E type \in EventTypes, d \in Readings : ListenerWith(type, d)

\* The push events of the specification that runs all threads together: an
\* event fails there only in a run.
FewEvents == {Base, EmptyObs, [Base EXCEPT !.humidity = Absent]}

SensorDataListenerFew ==
    \E type \in EventTypes, d \in FewEvents : ListenerWith(type, d)

\* The handler thread's set(irrigation_class).
HWrite1 ==
    /\ h_pc = "w1"
    /\ \E ok \in BOOLEAN :
         IF ok
         THEN /\ store' = SetClass(store, h_run.irrigation_class)
              /\ class_run' = ClassRunAfter(h_run)
              /\ h_pc' = "w2"
              /\ UNCHANGED <<h_kind, h_run, h_data, h_input, h_resp, h_event, escaped,
                             push_streak>>
         ELSE /\ HAfterPredict(h_kind, PredictOn("StoreError"))
              /\ UNCHANGED <<store, class_run>>
    /\ UNCHANGED <<clock, pollVars, featVars, pubVars>>

\* The handler thread's set(timestamp) and the return to the caller.
HWrite2 ==
    /\ h_pc = "w2"
    /\ \E ok \in BOOLEAN :
         IF ok
         THEN /\ store' = SetTime(store, h_run.timestamp)
              /\ HAfterPredict(h_kind, "ok")
         ELSE /\ HAfterPredict(h_kind, PredictOn("StoreError"))
              /\ UNCHANGED store
    /\ UNCHANGED <<clock, pollVars, class_run, featVars, pubVars>>

\* -------------------------------------------------------------- environment
\* The sensors (or anyone else) overwrite the reading under sensorData with
\* one of the readings in S.
SensorWriteFrom(S) ==
    /\ \E o \in S :
         /\ o # store.sensors
         /\ store' = [store EXCEPT !.sensors = o]
    /\ UNCHANGED <<clock, pollVars, hVars, escaped, class_run, push_streak, featVars, pubVars>>

SensorWrite == SensorWriteFrom(Observations \cup {EmptyObs})

\* The readings of the specification that runs all threads together.
FewObservations == {Base, [Base EXCEPT !.humidity = Bad]}

SensorWriteFew == SensorWriteFrom(FewObservations)

\* Feature construction and publishing alone are not running.
FeaturesOff ==
    /\ data = EmptyObs
    /\ now = NoTime
    /\ enc = NoEnc
    /\ feature_vector = <<>>

PublishOff ==
    /\ p_run = NoRun
    /\ p_count = 0

\* The threads before their first step.
ThreadsInit ==
    /\ clock = 0
    /\ poll_pc = "fetch"
    /\ current = None
    /\ last_values = None
    /\ consecutive_errors = 0
    /\ poll_run = NoRun
    /\ pollLog = "start"
    /\ streak = 0
    /\ h_pc = "idle"
    /\ h_kind = "none"
    /\ h_run = NoRun
    /\ h_data = EmptyObs
    /\ h_input = "none"
    /\ h_resp = "none"
    /\ h_event = "none"
    /\ escaped = {}
    /\ class_run = Absent
    /\ push_streak = 0

\* The program at startup; S is the history the specification records.
InitWith(S) ==
    /\ store = None
    /\ ThreadsInit
    /\ FeaturesOff
    /\ PublishOff
    /\ observe = S

Init == InitWith({})

PollNext == PollFetchFail \/ PollFetch \/ PollWrite1 \/ PollWrite2

HandlerNext == PredictRoute \/ TriggerPrediction \/ SensorDataListener \/ HWrite1 \/ HWrite2

\* All threads together, over a few readings and events.
Next ==
    \/ PollNext
    \/ PredictRoute \/ TriggerPrediction \/ SensorDataListenerFew \/ HWrite1 \/ HWrite2
    \/ SensorWriteFew

Spec == Init /\ [][Next]_vars

\* The poll thread alone with the sensors, over all the readings.
NextPoll == PollNext \/ SensorWrite

SpecPoll == Init /\ [][NextPoll]_vars

\* The request handlers and the push callback with the sensors.
NextReq == HandlerNext \/ SensorWrite

SpecReq == InitWith({"push_streak"}) /\ [][NextReq]_vars

\* All threads together, with the run behind prediction_class recorded.
SpecRuns == InitWith({"class_run"}) /\ [][Next]_vars

\* ------------------------------------------------- feature construction alone
\* Sensor values are whole numbers here. The rainfall 0.5 is counted in
\* halves, and so is everything computed from it.
Halves == 2

\* 'rainfall_mm_prediction_next_1h': 0.5
rainfall == 1

\* The dict full_input built from the argument d at the time t.
full_input(d, t) ==
    [soil_moisture_percent |-> d.soilMoisture,
     temperature_celsius |-> d.temperature,
     humidity_percent |-> d.humidity,
     rainfall_mm_prediction_next_1h |-> rainfall,
     hour |-> t.hour,
     day_of_year |-> t.day_of_year,
     month |-> t.month,
     district |-> "Coimbatore",
     zone |-> "Western Zone",
     season |-> "southwest_monsoon"]

\* heat_stress with the thresholds included.
heat_stress_inclusive(fi) ==
    IF fi.temperature_celsius >= 35 /\ fi.humidity_percent <= 50 THEN 1 ELSE 0

\* int(temperature_celsius > 35 and humidity_percent < 50)
heat_stress(fi) ==
    IF fi.temperature_celsius > 35 /\ fi.humidity_percent < 50 THEN 1 ELSE 0

\* drought_stress with the threshold included.
drought_stress_inclusive(fi) ==
    IF fi.soil_moisture_percent <= 30 /\ fi.rainfall_mm_prediction_next_1h < 1 * Halves
    THEN 1 ELSE 0

\* int(soil_moisture_percent < 30 and rainfall_mm_prediction_next_1h < 1)
drought_stress(fi) ==
    IF fi.soil_moisture_percent < 30 /\ fi.rainfall_mm_prediction_next_1h < 1 * Halves
    THEN 1 ELSE 0

\* soil_moisture_percent * temperature_celsius
soil_temp_interaction(fi) == fi.soil_moisture_percent * fi.temperature_celsius

\* humidity_percent * rainfall_mm_prediction_next_1h, in halves
humidity_rain_interaction(fi) == fi.humidity_percent * fi.rainfall_mm_prediction_next_1h

\* The row with the two interactions in each other's place.
FeatureVectorSwapped(fi, e) ==
    << fi.soil_moisture_percent,
       fi.temperature_celsius,
       fi.humidity_percent,
       fi.rainfall_mm_prediction_next_1h,
       fi.hour,
       fi.day_of_year,
       fi.month,
       e.district,
       e.zone,
       e.season,
       heat_stress(fi),
       drought_stress(fi),
       humidity_rain_interaction(fi),
       soil_temp_interaction(fi) >>

\* np.array([[...]]): the one row of feature_vector, e what the encoders
\* answered for district, zone and season.
FeatureVector(fi, e) ==
    << fi.soil_moisture_percent,
       fi.temperature_celsius,
       fi.humidity_percent,
       fi.rainfall_mm_prediction_next_1h,
       fi.hour,
       fi.day_of_year,
       fi.month,
       e.district,
       e.zone,
       e.season,
       heat_stress(fi),
       drought_stress(fi),
       soil_temp_interaction(fi),
       humidity_rain_interaction(fi) >>

\* The SensorData a run is called with: each field around the threshold the
\* features compare it with, and the base reading.
FeatureReadings ==
    { [humidity |-> h, temperature |-> t, soilMoisture |-> s] :
        h \in (50 - Spread .. 50 + Spread) \cup {Base.humidity},
        t \in (35 - Spread .. 35 + Spread) \cup {Base.temperature},
        s \in (30 - Spread .. 30 + Spread) \cup {Base.soilMoisture} }

\* datetime.now(): the first and the last hour of a leap year.
Times ==
    { [hour |-> 0, day_of_year |-> 1, month |-> 1],
      [hour |-> 23, day_of_year |-> 366, month |-> 12] }

\* What the three LabelEncoders answer for the configured labels.
Encodings == [{"district", "zone", "season"} -> 0..MaxEnc]

InitFeatures ==
    /\ store = None
    /\ ThreadsInit
    /\ PublishOff
    /\ observe = {}
    /\ data \in FeatureReadings
    /\ now \in Times
    /\ enc \in Encodings
    /\ feature_vector = <<>>

\* predict_irrigation from its first line to feature_vector.
BuildFeatures ==
    /\ feature_vector = <<>>
    /\ feature_vector' = FeatureVector(full_input(data, now), enc)
    /\ UNCHANGED <<store, progVars, data, now, enc, pubVars>>

SpecFeatures == InitFeatures /\ [][BuildFeatures]_vars

\* --------------------------------------------------------- publishing alone
\* What the node sensorData may hold before a run publishes: any reading,
\* no prediction or that of an earlier run.
PriorStores ==
    { [sensors |-> o, prediction_class |-> c, last_prediction_time |-> t] :
        o \in Observations \cup {EmptyObs},
        c \in {Absent} \cup (0..MaxClass + 1),
        t \in {Absent} \cup (0..MaxClock) }

\* What a run publishes: the class of the model and the time of the run.
Results ==
    { [irrigation_class |-> c, timestamp |-> t] : c \in Classes, t \in 1..MaxClock + 1 }

InitPublish ==
    /\ store \in PriorStores
    /\ ThreadsInit
    /\ FeaturesOff
    /\ p_run \in Results
    /\ p_count = 0
    /\ observe = {}

\* The two set() calls of predict_irrigation for the pair p_run.
Publish ==
    /\ p_count < MaxPublish
    /\ store' = SetTime(SetClass(store, p_run.irrigation_class), p_run.timestamp)
    /\ p_count' = p_count + 1
    /\ UNCHANGED <<progVars, featVars, p_run, observe>>

SpecPublish == InitPublish /\ [][Publish]_vars

\* ------------------------------------------------------------------ claims
\* The poll iteration called predict_irrigation.
RunInvoked(line) == line \in {"run_started", "run_error"}

\* The step is one of the poll thread: no other thread writes its variables.
PollStepped == pollVars' # pollVars

\* The step is a poll iteration whose ref.get() answered.
FetchAnswered == poll_pc = "fetch" /\ PollStepped /\ pollLog' # "error"

\* C1: last_values is assigned only by a pipeline run that succeeded: a step
\* that changes last_values is the end of a run that published (as stated).
C1_LastValuesOnlyOnSuccess ==
    [][last_values' # last_values => pollLog' = "run_ok"]_vars

\* C2: after a poll run for reading R failed, while the store still holds R,
\* the next poll iteration detects a change and runs the pipeline for R again
\* (as stated).
C2_FailedRunIsRetried ==
    (poll_pc = "fetch" /\ pollLog = "run_error" /\ Sensors(store) = Sensors(current))
        => DataChanged(store, last_values)

\* C3: the poll iteration after a run that published runs no pipeline while
\* the three sensor fields are what that run processed (as stated).
C3_NoRerunWhileSensorsUnchanged ==
    [][(FetchAnswered /\ pollLog = "run_ok" /\ Sensors(store) = Sensors(last_values))
          => ~RunInvoked(pollLog')]_vars

\* C4, as stated: a fetched observation that has the three sensor fields and
\* differs from last_values in one of them is run through the pipeline in that
\* iteration.
C4_ChangedReadingRuns_Original ==
    [][(FetchAnswered /\ HasRequired(store) /\ Sensors(store) # Sensors(last_values))
          => RunInvoked(pollLog')]_vars

\* C4, amended: a fetched observation whose three sensor fields are present
\* and convert to float, and that differs from last_values in one of them
\* (last_values empty included), is run through the pipeline in that iteration.
C4_ChangedReadingRuns ==
    [][(FetchAnswered /\ HasRequired(store) /\ CoerceExc(Sensors(store)) = "none"
          /\ Sensors(store) # Sensors(last_values))
          => RunInvoked(pollLog')]_vars

\* A second run started for a reading that differs from the one processed before.
C4_Witness ==
    /\ pollLog = "run_started"
    /\ last_values # None
    /\ Sensors(current) # Sensors(last_values)

C6_SuccessResetsErrors ==
    /\ [][(poll_pc = "w2" /\ pollLog' = "run_ok") => consecutive_errors' = 0]_vars
    /\ [][consecutive_errors' > consecutive_errors =>
            (consecutive_errors' = consecutive_errors + 1 /\ pollLog' = "error")]_vars
    /\ [](poll_pc = "halted" => consecutive_errors >= max_errors)

\* A run has published and left the counter at zero, the loop going on.
C6_Witness ==
    /\ pollLog = "run_ok"
    /\ consecutive_errors = 0
    /\ poll_pc = "fetch"
    /\ store.last_prediction_time = clock

\* C7: every poll step in which a stage raised (the fetch, the validation of
\* the fetched fields, encoding, inference, a publish) adds exactly one to
\* consecutive_errors (as stated).
C7_EveryExceptionCounts ==
    [][(PollStepped /\ pollLog' \in {"error", "invalid", "run_error"})
          => consecutive_errors' = consecutive_errors + 1]_vars

\* C8: a fetched observation with a sensor field missing or null starts no
\* run, writes nothing to the store and leaves last_values as it was, so the
\* next poll finds the same observation changed again.
C8_MissingFieldSkipped ==
    [][(FetchAnswered /\ \E f \in required_fields : store.sensors[f] \in {Absent, Null})
          => /\ ~RunInvoked(pollLog')
             /\ poll_pc' = "fetch"
             /\ store' = store
             /\ last_values' = last_values
             /\ DataChanged(store', last_values')]_vars

\* The loop reported a missing field of an observation that came after a
\* processed one.
C8_Witness ==
    /\ pollLog = "missing"
    /\ last_values # None
    /\ ~HasRequired(store)

\* C9: a request whose reading lacks a required sensor field is rejected
\* before feature construction, on POST /predict and on POST
\* /trigger-prediction: no run is in flight, and so no store write is made,
\* for a reading that was not complete (as stated).
C9_MissingFieldRejected ==
    (h_pc \in {"w1", "w2"} /\ h_kind \in {"predict", "trigger"}) => h_input = "complete"

\* C10: no exception leaves predict_irrigation's callers, and the poll loop
\* is the only source that stops, and stops only at the error threshold.
C10_NoErrorEscapes ==
    /\ escaped = {}
    /\ h_resp # "raised"
    /\ poll_pc = "halted" => consecutive_errors >= max_errors

\* A failed publish of a poll run and an exception of a request were both
\* reported.
C10_Witness == pollLog = "run_error" /\ h_resp = "exception" /\ escaped = {}

\* The step began a pipeline run: only predict_irrigation reads the clock.
RunBegan == clock' # clock

\* The step is a run that raised before its first set(): one of the poll
\* loop, which goes on to its next fetch, or one of the handler thread,
\* which is idle again.
RunAborted ==
    /\ RunBegan
    /\ IF PollStepped THEN poll_pc' = "fetch" ELSE h_pc' = "idle"

\* C11: a run that raises in feature construction or in inference reports
\* an error and writes nothing: prediction_class and last_prediction_time are
\* after the run what they were before it.
C11_AbortedRunPublishesNothing ==
    [][RunAborted =>
          /\ store'.prediction_class = store.prediction_class
          /\ store'.last_prediction_time = store.last_prediction_time
          /\ IF PollStepped THEN pollLog' = "run_error" ELSE h_resp' = "error"]_vars

\* A run of POST /predict was answered with an error payload and none of its
\* writes is in the store, which holds what the run before it published.
C11_Witness ==
    /\ h_resp = "error"
    /\ h_pc = "idle"
    /\ poll_pc = "fetch"
    /\ clock = 2
    /\ store.prediction_class # Absent
    /\ store.last_prediction_time = 1

\* The step is one of the handler thread.
HStepped == hVars' # hVars

\* POST /predict with a complete body begins a run.
PredictRuns == PredictRouteWith(Base) /\ RunBegan

\* C12: POST /predict runs the pipeline on every call, whatever the poll
\* loop or an earlier call has processed (a call that finds the handler free
\* can always begin a run, while the clock of the model lasts), and no step
\* of a call changes the poll loop's last_values or consecutive_errors.
C12_PredictUnconditional ==
    /\ []((h_pc = "idle" /\ clock < MaxClock) => ENABLED PredictRuns)
    /\ [][HStepped => UNCHANGED <<last_values, consecutive_errors>>]_vars

\* A run of POST /predict is publishing for the reading the poll loop has
\* processed and published before, the poll loop having counted an error.
C12_Witness ==
    /\ h_kind = "predict"
    /\ h_pc = "w2"
    /\ h_data = Sensors(last_values)
    /\ h_run.timestamp = 2
    /\ store.last_prediction_time = 1
    /\ consecutive_errors = 1

\* C13: the push callback has a run in flight only for a 'put' or 'patch'
\* event whose data holds the three fields (and is therefore not empty), and
\* an event it ignores or reports as incomplete begins no run and writes
\* nothing to the store.
C13_PushRunsOnlyCompleteWrites ==
    /\ []((h_kind = "push" /\ h_pc \in {"w1", "w2"})
            => (h_event \in {"put", "patch"} /\ h_input = "complete"))
    /\ [][(HStepped /\ h_resp' \in {"ignored", "missing"})
            => (store' = store /\ ~RunBegan /\ h_pc' = "idle")]_vars

\* The run for a 'patch' event with a complete reading is publishing.
C13_Witness ==
    /\ h_kind = "push"
    /\ h_event = "patch"
    /\ h_pc = "w2"
    /\ h_input = "complete"
    /\ store.prediction_class = h_run.irrigation_class

\* C14: the push source counts its failing events, and after max_errors of
\* them in a row it has stopped and processes no further event: a failing
\* event is never the one after max_errors failing events in a row (as
\* stated).
C14_PushStopsAtThreshold == push_streak <= max_errors

\* C15: publishing is idempotent: whatever the node held before, writing the
\* pair again after it has been written leaves the node as the first writing
\* left it.
C15_PublishIdempotent ==
    [][(p_count >= 1 /\ p_count' = p_count + 1) => store' = store]_vars

\* The pair has been written twice over a node that held a reading.
C15_Witness ==
    /\ p_count = 2
    /\ store.sensors = Base
    /\ store.prediction_class = p_run.irrigation_class
    /\ store.last_prediction_time = p_run.timestamp

\* feature_vector has been built.
Built == feature_vector # <<>>

\* C16: heat_stress, the eleventh entry of the feature vector, is 1 if the
\* temperature is above 35 and the humidity below 50, and 0 otherwise: 0 at
\* temperature 35 and 0 at humidity 50.
C16_HeatStress ==
    Built => feature_vector[11] =
                 IF data.temperature > 35 /\ data.humidity < 50 THEN 1 ELSE 0

\* The vector of a reading at the temperature threshold, the humidity below
\* its own.
C16_Witness ==
    /\ Built
    /\ data.temperature = 35
    /\ data.humidity = 49
    /\ feature_vector[11] = 0

\* C17: drought_stress, the twelfth entry of the feature vector, is 1 if
\* soilMoisture is below 30 and 0 otherwise, 0 at 30: the rainfall is 0.5.
C17_DroughtStress ==
    Built => /\ feature_vector[12] = IF data.soilMoisture < 30 THEN 1 ELSE 0
             /\ feature_vector[4] * 2 = 1 * Halves

\* The vector of a reading at the soil moisture threshold.
C17_Witness ==
    /\ Built
    /\ data.soilMoisture = 30
    /\ feature_vector[12] = 0

\* C18: the feature vector has 14 entries, in the order soil moisture,
\* temperature, humidity, rainfall, hour, day of year, month, the encoded
\* district, zone and season, heat_stress, drought_stress, soil moisture
\* times temperature, humidity times rainfall (here in halves).
C18_FeatureVectorLayout ==
    Built =>
        /\ Len(feature_vector) = 14
        /\ feature_vector[1] = data.soilMoisture
        /\ feature_vector[2] = data.temperature
        /\ feature_vector[3] = data.humidity
        /\ feature_vector[4] * 2 = 1 * Halves
        /\ feature_vector[5] = now.hour
        /\ feature_vector[6] = now.day_of_year
        /\ feature_vector[7] = now.month
        /\ feature_vector[8] = enc.district
        /\ feature_vector[9] = enc.zone
        /\ feature_vector[10] = enc.season
        /\ feature_vector[11] \in {0, 1}
        /\ feature_vector[12] \in {0, 1}
        /\ feature_vector[13] = data.soilMoisture * data.temperature
        /\ feature_vector[14] * 2 = data.humidity * Halves

\* The vector of humidity 40, temperature 38, soilMoisture 20: heat_stress
\* 1, drought_stress 1, 760 and 20.
C18_Witness ==
    /\ Built
    /\ data = Base
    /\ feature_vector[11] = 1
    /\ feature_vector[12] = 1
    /\ feature_vector[13] = 760
    /\ feature_vector[14] = 20 * Halves

\* C19: when the store holds a prediction_class and a last_prediction_time,
\* both were written by one run: the run that set the class is the run whose
\* timestamp the store holds (as stated).
C19_PairFromOneRun ==
    (store.prediction_class # Absent /\ store.last_prediction_time # Absent)
        => class_run = store.last_prediction_time

\* C20: the poll loop stops only when its max_errors latest iterations all
\* raised: an iteration whose fetch answered and that ran no pipeline breaks
\* the streak, and errors on either side of it do not add up (as stated).
C20_HaltOnlyOnUnbrokenStreak == poll_pc = "halted" => streak >= max_errors

====
